---- MODULE Spec2Model ----
(***************************************************************************)
(* A model of qutebrowser's tab abstraction                                *)
(* (qutebrowser/browser/browsertab.py): the load-status state machine of   *)
(* AbstractTab, the click-target handling of TabData/_on_link_clicked and  *)
(* the signals the handlers emit.                                          *)
(*                                                                         *)
(* Python values are records [enum, name]: an enum member is the record of *)
(* its enum type and its member name, None is NoneVal, False is FalseVal.  *)
(* A QUrl is a record [valid, scheme, display].  An emitted signal is a    *)
(* record [sig, args].                                                     *)
(***************************************************************************)
EXTENDS Integers, Sequences, FiniteSets

\* ---------------------------------------------------------------- bounds
\* _on_load_progress is explored with perc in 0..MaxProgress.
MaxProgress == 1
\* Main windows that exist when the tab is constructed.
InitWindows == 2
\* At most this many main windows ever exist (caps mainwindow.MainWindow()).
MaxWindows == 3
\* At most this many tabs are ever constructed.
MaxTabs == 4
\* The shortest time, in ms, that one pass of the loop of _wait_for_clipboard
\* takes; waits last a multiple of it.
Tick == 250
\* At most this many 'I open ...' steps are run.
MaxSteps == 2
\* AbstractZoom.offset is explored with offsets in -MaxOffset..MaxOffset.
MaxOffset == 2

\* ---------------------------------------------------------------- values
NoneVal == [enum |-> "NoneType", name |-> "None"]
FalseVal == [enum |-> "bool", name |-> "False"]

Member(e, n) == [enum |-> e, name |-> n]

\* usertypes.LoadStatus, the members this file uses.
LoadStatusNames == {"none", "loading", "success", "success_https", "warn", "error"}
LoadStatus == {Member("LoadStatus", n) : n \in LoadStatusNames}

\* usertypes.ClickTarget, the members _on_link_clicked distinguishes.
ClickTargetNames == {"normal", "tab", "tab_bg", "window"}
ClickTarget == {Member("ClickTarget", n) : n \in ClickTargetNames}

\* Values handed to _set_load_status that are no LoadStatus member: the bare
\* member name as a str, None, and a member of another enum.
NonLoadStatus == {Member("str", "loading"), NoneVal, Member("ClickTarget", "normal")}

\* isinstance(val, usertypes.LoadStatus)
IsLoadStatus(val) == val \in LoadStatus

\* QUrl values: the invalid (empty) URL, an http URL and an https URL.
InvalidUrl == [valid |-> FALSE, scheme |-> "", display |-> ""]
HttpUrl == [valid |-> TRUE, scheme |-> "http", display |-> "http://example.com/"]
HttpsUrl == [valid |-> TRUE, scheme |-> "https", display |-> "https://example.com/"]
Urls == {InvalidUrl, HttpUrl, HttpsUrl}

\* What title() can return: the empty string or a page title.
Titles == {"", "Example"}

Emit(sig, args) == [sig |-> sig, args |-> args]

\* ----------------------------------------------------------------- state
VARIABLES
    win_id,            \* AbstractTab.win_id
    _load_status,      \* AbstractTab._load_status
    _progress,         \* AbstractTab._progress
    _has_ssl_errors,   \* AbstractTab._has_ssl_errors
    data,              \* AbstractTab.data, a TabData
    windows,           \* win ids of the main windows that exist
    shown,             \* win ids of the main windows that were shown
    call,              \* the call handled last and what it did
    pre,               \* fields as they were when that call began
    last_status_signal,\* argument of the latest load_status_changed emission
    load_events,       \* whether _on_load_started/_on_load_finished was handled
    hinting,           \* latest hinting slot handled: "never", "started", "stopped"
    tab_id_gen,        \* the module's tab_id_gen: the value next() returns next
    tabs,              \* the AbstractTab objects, in the order of construction
    tab_registry,      \* the 'tab-registry' of each window: tab_id -> tab object
    rcall,             \* the create() call handled last and what it returned
    zoom,              \* the tab's AbstractZoom and its widget's zoom factor
    zcall,             \* the AbstractZoom call handled last and what it did
    steps,             \* the 'I open ...' steps run and the open_path call of each
    clipboard,         \* the text of the clipboard in each mode
    wfc,               \* the frame of the _wait_for_clipboard call
    fill               \* the frame of the fill_clipboard step

\* The fields of the tab whose slots are modelled, and its observers.
tabVars == <<win_id, _load_status, _progress, _has_ssl_errors, data, windows, shown,
             call, pre, last_status_signal, load_events, hinting>>
\* The tab objects of the process and the registries that hold them.
regVars == <<tab_id_gen, tabs, tab_registry, rcall>>

\* The zoom attribute of the tab.
zoomVars == <<zoom, zcall>>

\* The integration tests' steps.
stepVars == <<steps>>
\* The clipboard and the call that waits for it.
clipVars == <<clipboard, wfc, fill>>

vars == <<tabVars, regVars, zoomVars, stepVars, clipVars>>

NeverEmitted == "<never>"

\* The record of a call: its name and arguments, what url() and title()
\* returned to it, the signals it emitted, in order, with what load_status() and
\* progress() return to a listener of each (seen), and its effects on the world
\* outside the tab.
Call(op) ==
    [op |-> op, val |-> NoneVal, url |-> InvalidUrl, ok |-> FALSE, perc |-> 0,
     cur_url |-> InvalidUrl, cur_title |-> "",
     ret |-> NoneVal, raised |-> "", emitted |-> <<>>, seen |-> <<>>,
     errors |-> <<>>, tabopens |-> <<>>, created |-> {}]

\* What load_status() and progress() return to a listener.
Seen(status, perc) == [load_status |-> status, progress |-> perc]

Snapshot == [load_status |-> _load_status, progress |-> _progress,
             has_ssl_errors |-> _has_ssl_errors, data |-> data, windows |-> windows]

\* The status signal observed after a call that emitted `emitted`.
StatusSignalAfter(emitted) ==
    LET idx == {i \in 1..Len(emitted) : emitted[i].sig = "load_status_changed"}
    IN  IF idx = {} THEN last_status_signal
        ELSE emitted[CHOOSE i \in idx : \A j \in idx : j <= i].args[1]

\* ------------------------------------------------------------- TabData
TabData_init ==
    [keep_icon |-> FALSE, viewing_source |-> FALSE,
     open_target |-> Member("ClickTarget", "normal"), hint_target |-> NoneVal]

\* combined_target with a hint_target of normal taken for no override.
CombinedTargetNormalIsNoOverride(d) ==
    IF d.hint_target # NoneVal /\ d.hint_target # Member("ClickTarget", "normal")
    THEN d.hint_target
    ELSE d.open_target

combined_target(d) ==
    IF d.hint_target # NoneVal THEN d.hint_target ELSE d.open_target

\* ---------------------------------------------------------- AbstractTab
\* _set_load_status without its assignment to _load_status.
SetLoadStatusNoStore(status, val) ==
    IF ~IsLoadStatus(val)
    THEN [load_status |-> status, emitted |-> <<>>, raised |-> "TypeError"]
    ELSE [load_status |-> status,
          emitted |-> <<Emit("load_status_changed", <<val.name>>)>>,
          raised |-> ""]

\* _set_load_status without its isinstance check.
SetLoadStatusUnchecked(status, val) ==
    [load_status |-> val,
     emitted |-> <<Emit("load_status_changed", <<val.name>>)>>,
     raised |-> ""]

\* _set_load_status(val) on a tab whose status is `status`: the new status,
\* the signals emitted and the exception raised ("" for none).
_set_load_status(status, val) ==
    IF ~IsLoadStatus(val)
    THEN [load_status |-> status, emitted |-> <<>>, raised |-> "TypeError"]
    ELSE [load_status |-> val,
          emitted |-> <<Emit("load_status_changed", <<val.name>>)>>,
          raised |-> ""]

load_status == _load_status
progress == _progress

\* ------------------------------------------------- construction of tabs
\* A tab object is the record of its fields; it is identified by its position
\* in tabs (1 for the tab constructed first).
\* next(tab_id_gen) of itertools.count: the value returned and the generator
\* afterwards.
NextTabIdStuck(gen) == [value |-> gen, gen |-> gen]

NextTabId(gen) == [value |-> gen, gen |-> gen + 1]

\* d[key] = obj of a dict replaced by a dict that holds this one entry only.
DictSetAlone(d, key, obj) == [k \in {key} |-> obj]

\* d[key] = obj of a dict (tab_registry[self.tab_id] = self).
DictSet(d, key, obj) ==
    [k \in (DOMAIN d) \cup {key} |-> IF k = key THEN obj ELSE d[k]]

\* del d[key]
DictDel(d, key) == [k \in (DOMAIN d) \ {key} |-> d[k]]

EmptyDict == <<>>

\* objreg.get('tab-registry', scope='window', window=win) in the registries regs.
WindowTabRegistry(regs, win) == IF win \in DOMAIN regs THEN regs[win] ELSE EmptyDict

\* modeman.instance(win_id): the mode manager of that window.
ModeManager(win) == [mode_manager_of |-> win]

NoHintManager == [win_id |-> -1, tab_id |-> -1]

\* create() taking every backend but 'webkit' for QtWebEngine.
TabClassWebKitOnlyByName(backend) ==
    IF backend # "webkit" THEN "WebEngineTab" ELSE "WebKitTab"

\* The class create() instantiates for objreg.get('args').backend.
TabClass(backend) ==
    IF backend = "webengine" THEN "WebEngineTab" ELSE "WebKitTab"

\* The values of the backend argument create() is explored with.
Backends == {"webengine", "webkit", "WebEngine", ""}

\* The Qt parents create() is explored with.
Parents == {"None", "tabbed-browser"}

\* AbstractTab.__init__(win, parent) of an object of class cls in the world
\* [gen, tabs, regs]: the world afterwards.  The tab takes the next tab id,
\* enters the window's tab-registry under it, registers itself as 'tab' in its
\* own registry, and its hint manager is registered in the scope of the tab
\* that the window's tab-registry holds under this tab id.
AbstractTab_init(world, cls, win, mode_manager, parent) ==
    LET n == Len(world.tabs) + 1
        id == NextTabId(world.gen)
        winreg == DictSet(WindowTabRegistry(world.regs, win), id.value, n)
        self == [tab_id |-> id.value, win_id |-> win, cls |-> cls,
                 mode_manager |-> mode_manager, parent |-> parent, alive |-> TRUE,
                 registry |-> [tab |-> n, hintmanager |-> NoHintManager]]
        all == Append(world.tabs, self)
        scope == winreg[id.value]
    IN  [gen |-> id.gen,
         tabs |-> [all EXCEPT ![scope].registry.hintmanager =
                        [win_id |-> win, tab_id |-> id.value]],
         regs |-> DictSet(world.regs, win, winreg)]

NoTabs == [gen |-> 0, tabs |-> <<>>, regs |-> EmptyDict]

RCall(op) == [op |-> op, backend |-> "", win_id |-> -1, parent |-> "None",
              ret |-> 0, pre_tabs |-> tabs, pre_regs |-> tab_registry]

\* create(win, parent) with objreg.get('args').backend = backend.
create(backend, win, parent) ==
    LET w == AbstractTab_init([gen |-> tab_id_gen, tabs |-> tabs, regs |-> tab_registry],
                              TabClass(backend), win, ModeManager(win), parent)
    IN  /\ Len(tabs) < MaxTabs
        /\ tab_id_gen' = w.gen
        /\ tabs' = w.tabs
        /\ tab_registry' = w.regs
        /\ rcall' = [RCall("create") EXCEPT
                       !.backend = backend, !.win_id = win, !.parent = parent,
                       !.ret = Len(tabs) + 1]

\* A tab other than the first is deleted: Qt destroys the object and the
\* window's tab-registry drops its entry.
TabGone(i) ==
    /\ i \in 2..Len(tabs)
    /\ tabs[i].alive
    /\ tabs' = [tabs EXCEPT ![i].alive = FALSE]
    /\ tab_registry' = [tab_registry EXCEPT ![tabs[i].win_id] =
                            DictDel(@, tabs[i].tab_id)]
    /\ rcall' = [RCall("gone") EXCEPT !.ret = i]
    /\ UNCHANGED tab_id_gen

\* The state after the first tab was constructed, by a QtWebKit process.
FirstTab(win) == AbstractTab_init(NoTabs, TabClass("webkit"), win, ModeManager(win), "None")

\* --------------------------------------------------------- AbstractZoom
\* A float is the fraction [num, den] with den > 0; a percentage is an integer.
Frac(n, d) == [num |-> n, den |-> d]

\* A Python float is a binary64 number: a leading 1 and 52 more bits, kept here
\* in the limbs d1, d2 (HighLimb bits each) and d3 (LowLimb bits), times a
\* power of two:
\*   (2^52 + d1 * 2^34 + d2 * 2^16 + d3) * 2^(exp - 52).
\* The fraction [num, den] stands for the float nearest to it.
HighLimb == 18
LowLimb == 16

RECURSIVE Pow2(_)
Pow2(n) == IF n = 0 THEN 1 ELSE 2 * Pow2(n - 1)

RECURSIVE Exponent(_, _)
\* The largest e with 2^e <= p / q, for p > 0 and q > 0.
Exponent(p, q) ==
    IF p >= 2 * q THEN Exponent(p, 2 * q) + 1
    ELSE IF p < q THEN Exponent(2 * p, q) - 1
    ELSE 0

RECURSIVE BitLen(_)
\* The number of bits of the integer i >= 0.
BitLen(i) == IF i = 0 THEN 0 ELSE 1 + BitLen(i \div 2)

\* Round to nearest, ties to even: up says that what was cut off calls for
\* the next float.
Rounded(exp, d1, d2, d3, up) ==
    IF ~up THEN [exp |-> exp, d1 |-> d1, d2 |-> d2, d3 |-> d3]
    ELSE IF d3 + 1 < Pow2(LowLimb) THEN [exp |-> exp, d1 |-> d1, d2 |-> d2, d3 |-> d3 + 1]
    ELSE IF d2 + 1 < Pow2(HighLimb) THEN [exp |-> exp, d1 |-> d1, d2 |-> d2 + 1, d3 |-> 0]
    ELSE IF d1 + 1 < Pow2(HighLimb) THEN [exp |-> exp, d1 |-> d1 + 1, d2 |-> 0, d3 |-> 0]
    ELSE [exp |-> exp + 1, d1 |-> 0, d2 |-> 0, d3 |-> 0]

\* The float nearest to p / q, for p > 0 and q > 0: long division of the
\* fraction scaled into [1, 2), one limb at a time.
Nearest(p, q) ==
    LET e == Exponent(p, q)
        ps == IF e < 0 THEN p * Pow2(-e) ELSE p
        qs == IF e > 0 THEN q * Pow2(e) ELSE q
        r0 == ps % qs
        d1 == (r0 * Pow2(HighLimb)) \div qs
        r1 == (r0 * Pow2(HighLimb)) % qs
        d2 == (r1 * Pow2(HighLimb)) \div qs
        r2 == (r1 * Pow2(HighLimb)) % qs
        d3 == (r2 * Pow2(LowLimb)) \div qs
        r3 == (r2 * Pow2(LowLimb)) % qs
        up == 2 * r3 > qs \/ (2 * r3 = qs /\ d3 % 2 = 1)
    IN  Rounded(e, d1, d2, d3, up)

\* x * k of floats, for a float x > 0 and a small integer k > 0: the exact
\* product, limb by limb, rounded to a float.
FloatTimes(x, k) ==
    LET t3 == x.d3 * k
        t2 == x.d2 * k + t3 \div Pow2(LowLimb)
        t1 == x.d1 * k + t2 \div Pow2(HighLimb)
        p0 == k + t1 \div Pow2(HighLimb)
        p1 == t1 % Pow2(HighLimb)
        p2 == t2 % Pow2(HighLimb)
        p3 == t3 % Pow2(LowLimb)
        drop == BitLen(p0) - 1
        d1 == (p0 - Pow2(drop)) * Pow2(HighLimb - drop) + p1 \div Pow2(drop)
        d2 == (p1 % Pow2(drop)) * Pow2(HighLimb - drop) + p2 \div Pow2(drop)
        d3 == (p2 % Pow2(drop)) * Pow2(LowLimb - drop) + p3 \div Pow2(drop)
        tail == p3 % Pow2(drop)
        half == IF drop = 0 THEN 1 ELSE Pow2(drop - 1)
        up == drop > 0 /\ (tail > half \/ (tail = half /\ d3 % 2 = 1))
    IN  Rounded(x.exp + drop, d1, d2, d3, up)

\* int(x) of a float x > 0 below 2^(HighLimb + 1): the bits before the binary
\* point.
FloatToInt(x) ==
    IF x.exp < 0 THEN 0 ELSE Pow2(x.exp) + x.d1 \div Pow2(HighLimb - x.exp)

\* int(factor * 100): the float factor times 100 is rounded to a float, and
\* int() truncates that towards zero.
PercentOf(factor) ==
    IF factor.num = 0 THEN 0
    ELSE IF factor.num > 0
         THEN FloatToInt(FloatTimes(Nearest(factor.num, factor.den), 100))
         ELSE -FloatToInt(FloatTimes(Nearest(-factor.num, factor.den), 100))

\* config.get('ui', 'zoom-levels') and config.get('ui', 'default-zoom').
ZoomLevels == <<50, 100, 150, 200>>
DefaultZoom == 100

\* NeighborList.fuzzyval: None or an integer.
NoFuzzy == [none |-> TRUE, val |-> 0]
Fuzzy(v) == [none |-> FALSE, val |-> v]

Abs(x) == IF x >= 0 THEN x ELSE -x

\* usertypes.NeighborList(levels, mode=edge): no index until the first getitem.
NeighborList(levels) == [items |-> levels, idx |-> 0, fuzzyval |-> NoFuzzy]

\* NeighborList._snap_in(offset): the index (from 1) of the item closest to
\* fuzzyval among those on the side the offset points away from, or the
\* smallest / largest item if there is none.
SnapIn(nl, offset) ==
    LET f == nl.fuzzyval.val
        n == Len(nl.items)
        side == {i \in 1..n : IF offset < 0 THEN nl.items[i] <= f ELSE nl.items[i] >= f}
        closest == CHOOSE i \in side :
                      \A j \in side :
                          \/ Abs(f - nl.items[i]) < Abs(f - nl.items[j])
                          \/ Abs(f - nl.items[i]) = Abs(f - nl.items[j]) /\ i <= j
        smallest == CHOOSE i \in 1..n : \A j \in 1..n :
                      nl.items[i] < nl.items[j] \/ (nl.items[i] = nl.items[j] /\ i <= j)
        largest == CHOOSE i \in 1..n : \A j \in 1..n :
                      nl.items[i] > nl.items[j] \/ (nl.items[i] = nl.items[j] /\ i >= j)
    IN  IF side # {} THEN closest
        ELSE IF offset < 0 THEN smallest ELSE largest

\* NeighborList.getitem(offset) in mode edge: the item returned and the list
\* afterwards (fuzzyval is consumed).
NeighborList_getitem(nl, offset) ==
    LET fuzzy == ~nl.fuzzyval.none
        idx0 == IF fuzzy THEN SnapIn(nl, offset) ELSE nl.idx
        snapped == fuzzy /\ \A i \in 1..Len(nl.items) : nl.items[i] # nl.fuzzyval.val
        off == IF snapped /\ offset > 0 THEN offset - 1
               ELSE IF snapped THEN offset + 1
               ELSE offset
        new == idx0 + off
        idx1 == IF new >= 1 /\ new <= Len(nl.items) THEN new
                ELSE IF off > 0 THEN Len(nl.items) ELSE 1
    IN  [item |-> nl.items[idx1],
         list |-> [nl EXCEPT !.idx = idx1, !.fuzzyval = NoFuzzy]]

\* AbstractZoom._init_neighborlist
_init_neighborlist(z) ==
    [z EXCEPT !.neighborlist =
        [NeighborList(ZoomLevels) EXCEPT !.fuzzyval = Fuzzy(DefaultZoom)]]

\* AbstractZoom.__init__; the widget's zoom factor is 1.0 until it is set.
Zoom_init ==
    _init_neighborlist([neighborlist |-> NeighborList(ZoomLevels),
                        default_zoom_changed |-> FALSE,
                        factor |-> Frac(100, 100)])

\* _set_factor_internal(factor) of the backend: the widget takes the factor.
_set_factor_internal(z, factor) == [z EXCEPT !.factor = factor]

\* set_factor(factor, fuzzyval=fuzzyval) on the zoom z: the zoom afterwards and
\* the exception raised ("" for none).
set_factor(z, factor, fuzzyval) ==
    LET z1 == IF fuzzyval
              THEN [z EXCEPT !.neighborlist.fuzzyval = Fuzzy(PercentOf(factor))]
              ELSE z
    IN  IF factor.num < 0
        THEN [zoom |-> z1, raised |-> "ValueError"]
        ELSE [zoom |-> _set_factor_internal([z1 EXCEPT !.default_zoom_changed = TRUE],
                                            factor),
              raised |-> ""]

\* offset() calling set_factor without fuzzyval=False.
ZoomOffsetSetsFuzzyval(z, n) ==
    LET got == NeighborList_getitem(z.neighborlist, n)
        r == set_factor([z EXCEPT !.neighborlist = got.list], Frac(got.item, 100), TRUE)
    IN  [zoom |-> r.zoom, raised |-> r.raised, ret |-> got.item]

\* offset(n) on the zoom z: the zoom afterwards, the exception raised and the
\* level returned.
zoom_offset(z, n) ==
    LET got == NeighborList_getitem(z.neighborlist, n)
        r == set_factor([z EXCEPT !.neighborlist = got.list], Frac(got.item, 100), FALSE)
    IN  [zoom |-> r.zoom, raised |-> r.raised, ret |-> got.item]

ZCall(op) == [op |-> op, offset |-> 0, factor |-> Frac(0, 1), fuzzyval |-> FALSE,
              ret |-> 0, raised |-> "", pre |-> zoom]

\* The factors set_factor is explored with: -1.5, -0.005, 0.0, 0.755, 1.25.
Factors == {Frac(-150, 100), Frac(-29, 100), Frac(-1, 200), Frac(0, 100), Frac(151, 200),
            Frac(115, 100), Frac(125, 100)}

\* A call of zoom.offset(n).
ZoomOffset(n) ==
    LET r == zoom_offset(zoom, n)
    IN  /\ zoom' = r.zoom
        /\ zcall' = [ZCall("offset") EXCEPT
                       !.offset = n, !.raised = r.raised,
                       !.ret = IF r.raised = "" THEN r.ret ELSE 0]

\* A call of zoom.set_factor(factor, fuzzyval=fuzzyval).
ZoomSetFactor(factor, fuzzyval) ==
    LET r == set_factor(zoom, factor, fuzzyval)
    IN  /\ zoom' = r.zoom
        /\ zcall' = [ZCall("set_factor") EXCEPT
                       !.factor = factor, !.fuzzyval = fuzzyval, !.raised = r.raised]

\* A call of zoom.set_default().
ZoomSetDefault ==
    /\ zoom' = _set_factor_internal(zoom, Frac(DefaultZoom, 100))
    /\ zcall' = ZCall("set_default")

\* The slot of the config's changed(section, option) signal.
_on_config_changed(section, option) ==
    LET ours == section = "ui" /\ option \in {"zoom-levels", "default-zoom"}
        z1 == IF zoom.default_zoom_changed THEN zoom
              ELSE _set_factor_internal(zoom, Frac(DefaultZoom, 100))
    IN  /\ zoom' = IF ours
                   THEN _init_neighborlist([z1 EXCEPT !.default_zoom_changed = FALSE])
                   ELSE zoom
        /\ zcall' = ZCall("_on_config_changed")

\* ------------------------------------------- integration-test step glue
\* A str is the sequence of its characters.
new_tab_suffix == <<" ", "i", "n", " ", "a", " ", "n", "e", "w", " ", "t", "a", "b">>

\* path.endswith(suffix)
EndsWith(path, suffix) ==
    /\ Len(path) >= Len(suffix)
    /\ SubSeq(path, Len(path) - Len(suffix) + 1, Len(path)) = suffix

\* suffix in path
Contains(path, suffix) ==
    \E i \in 1..(Len(path) + 1) :
        /\ i + Len(suffix) - 1 <= Len(path)
        /\ SubSeq(path, i, i + Len(suffix) - 1) = suffix

\* path[:-n] for n > 0
DropLast(path, n) == SubSeq(path, 1, Len(path) - n)

\* The paths the steps are explored with: '/', 'd/x', each of them with the
\* suffix, the suffix alone, twice, before a path, without its first or last
\* character, and followed by a space.
StepPaths ==
    LET root == <<"/">>
        file == <<"d", "/", "x">>
    IN  {root, file, root \o new_tab_suffix, file \o new_tab_suffix,
         new_tab_suffix, new_tab_suffix \o new_tab_suffix,
         new_tab_suffix \o root, file \o new_tab_suffix \o root,
         file \o Tail(new_tab_suffix),
         file \o DropLast(new_tab_suffix, 1),
         file \o new_tab_suffix \o <<" ">>}

\* The quteproc.open_path(path, new_tab=new_tab) call a step makes.
OpenPathCall(path, new_tab) == [path |-> path, new_tab |-> new_tab]

\* open_path_given(path): the step 'Given I open {path}'.
open_path_given(path) == OpenPathCall(path, TRUE)

\* open_path testing whether the suffix occurs in the path, not whether the
\* path ends with it.
OpenPathSuffixAnywhere(path) ==
    IF Contains(path, new_tab_suffix)
    THEN OpenPathCall(DropLast(path, Len(new_tab_suffix)), TRUE)
    ELSE OpenPathCall(path, FALSE)

\* open_path(path): the step 'When I open {path}'.
open_path(path) ==
    IF EndsWith(path, new_tab_suffix)
    THEN OpenPathCall(DropLast(path, Len(new_tab_suffix)), TRUE)
    ELSE OpenPathCall(path, FALSE)

\* The step 'Given I open {path}' is run.
GivenIOpen(path) ==
    /\ Len(steps) < MaxSteps
    /\ steps' = Append(steps, [step |-> "given", path |-> path,
                               opened |-> open_path_given(path)])

\* The step 'When I open {path}' is run.
WhenIOpen(path) ==
    /\ Len(steps) < MaxSteps
    /\ steps' = Append(steps, [step |-> "when", path |-> path,
                               opened |-> open_path(path)])

\* ------------------------------------------------- _wait_for_clipboard
\* timeout = 1000
timeout == 1000

\* QClipboard.Clipboard and QClipboard.Selection.
Modes == {"clipboard", "selection"}

\* The texts the clipboard and the expectation range over; a text is a
\* sequence of characters.
Texts == {<<"a">>, <<"b">>}

\* '(port)'
port_placeholder == <<"(", "p", "o", "r", "t", ")">>

\* str(httpbin.port)
port_str == <<"8", "0">>

\* The contents the step 'I put "..." into the ...' is run with.
Contents == Texts \cup {<<"a">> \o port_placeholder}

\* The names of the two clipboards in the steps.
Whats == {"clipboard", "primary selection"}

RECURSIVE Replace(_, _, _)
\* s.replace(old, new), for a non-empty old
Replace(s, old, new) ==
    IF Len(s) < Len(old) THEN s
    ELSE IF SubSeq(s, 1, Len(old)) = old
         THEN new \o Replace(SubSeq(s, Len(old) + 1, Len(s)), old, new)
         ELSE <<s[1]>> \o Replace(Tail(s), old, new)

\* _clipboard_mode(qapp, what): the mode, or "AssertionError" if the primary
\* selection is asked for and not supported.
_clipboard_mode(supportsSelection, what) ==
    IF what = "clipboard" THEN "clipboard"
    ELSE IF what = "primary selection"
         THEN IF supportsSelection THEN "selection" ELSE "AssertionError"
         ELSE "AssertionError"

\* The elapsed time is kept up to the first value that has expired.
Later(elapsed, d) == IF elapsed + d > timeout THEN timeout + 1 ELSE elapsed + d

\* timer.hasExpired(timeout)
hasExpired(elapsed, t) == elapsed > t

\* not blocker.signal_triggered or timer.hasExpired(timeout)
ShouldRaise(signal_triggered, elapsed) ==
    ~signal_triggered \/ hasExpired(elapsed, timeout)

\* The names bound in the module when its functions run: its imports and its
\* functions.
ModuleNames ==
    {"re", "time", "json", "os", "logging", "collections", "pytest", "yaml", "bdd",
     "QElapsedTimer", "QClipboard", "utils",
     "_clipboard_mode", "set_setting_given", "open_path_given", "run_command_given",
     "fresh_instance", "open_path", "set_setting", "run_command", "reload",
     "wait_until_loaded", "wait_in_log", "wait_for_message", "wait_time", "press_keys",
     "selection_supported", "fill_clipboard", "path_should_be_loaded", "list_of_requests",
     "list_of_requests_unordered", "expect_message", "should_be_logged",
     "ensure_not_logged", "javascript_message_logged", "javascript_message_not_logged",
     "compare_session", "no_crash", "check_header", "check_contents", "check_open_tabs",
     "_wait_for_clipboard", "clipboard_contains", "clipboard_contains_multiline"}

\* raise <name>(...): the exception that leaves the function. Python looks
\* the name up first, and an unbound name is a NameError.
RaiseNamed(name) == IF name \in ModuleNames THEN name ELSE "NameError"

\* pc: "idle" before the call, "check" at the top of the loop, "wait" in
\* qtbot.waitSignal, "test" after it, "returned" or "raised" at the end.
Frame_idle == [pc |-> "idle", mode |-> "clipboard", expected |-> <<"a">>, elapsed |-> 0,
               signal_triggered |-> FALSE, checked |-> <<>>, checks |-> 0, exc |-> ""]

\* The frame of fill_clipboard: pc is "idle" before the step, "wait" inside
\* qtbot.waitSignal after setText, "returned" when the signal was caught,
\* "raised" after the AssertionError of _clipboard_mode, "timed_out" when
\* waitSignal ended without a signal. mode and content are the locals of the
\* step; mode is "unbound" until _clipboard_mode has returned.
FillFrame(pc, mode, content, exc) ==
    [pc |-> pc, mode |-> mode, content |-> content, exc |-> exc]

\* Neither step is running: the steps of a test run one after the other.
BetweenSteps ==
    /\ wfc.pc \in {"idle", "returned", "raised"}
    /\ fill.pc # "wait"

\* The step 'I put "<content>" into the <what>': fill_clipboard sets the text
\* of the mode inside qtbot.waitSignal(clipboard.changed), and then waits for
\* the signal.
fill_clipboard(supportsSelection, what, content) ==
    LET mode == _clipboard_mode(supportsSelection, what)
        text == Replace(content, port_placeholder, port_str)
    IN  /\ BetweenSteps
        /\ IF mode = "AssertionError"
           THEN /\ fill' = FillFrame("raised", "unbound", content, "AssertionError")
                /\ UNCHANGED clipboard
           ELSE /\ fill' = FillFrame("wait", mode, text, "")
                /\ clipboard' = [clipboard EXCEPT ![mode] = text]
        /\ UNCHANGED wfc

\* clipboard.changed reaches the waitSignal of fill_clipboard, out of setText
\* itself or out of the event loop, and the step ends.
FillSignalCaught ==
    /\ fill.pc = "wait"
    /\ fill' = [fill EXCEPT !.pc = "returned"]
    /\ UNCHANGED <<clipboard, wfc>>

\* While fill_clipboard waits in the event loop, another writer changes the
\* clipboard.
FillOtherWriter(mode, text) ==
    /\ fill.pc = "wait"
    /\ clipboard' = [clipboard EXCEPT ![mode] = text]
    /\ UNCHANGED <<wfc, fill>>

\* The waitSignal of fill_clipboard ends without a signal; what it does then
\* is qtbot's to decide.
FillWaitTimedOut ==
    /\ fill.pc = "wait"
    /\ fill' = [fill EXCEPT !.pc = "timed_out"]
    /\ UNCHANGED <<clipboard, wfc>>

\* The steps the waitSignal of fill_clipboard ends with.
FillWaitEnds == FillSignalCaught \/ FillWaitTimedOut

\* _wait_for_clipboard(qtbot, clipboard, mode, expected) is called; the
\* timer starts.
WaitForClipboardCalled(mode, expected) ==
    /\ BetweenSteps
    /\ UNCHANGED <<clipboard, fill>>
    /\ wfc' = [Frame_idle EXCEPT !.pc = "check", !.mode = mode, !.expected = expected]

\* if clipboard.text(mode=mode) == expected: return
CheckText ==
    /\ wfc.pc = "check"
    /\ wfc' = [wfc EXCEPT
                 !.checked = clipboard[wfc.mode],
                 !.checks = IF @ < 2 THEN @ + 1 ELSE @,
                 !.pc = IF clipboard[wfc.mode] = wfc.expected THEN "returned" ELSE "wait"]
    /\ UNCHANGED <<clipboard, fill>>

\* with qtbot.waitSignal(clipboard.changed, timeout=timeout): the clipboard
\* changes after d ms, within the timeout, and the signal is caught.
WaitSignalTriggered(d, mode, text) ==
    /\ wfc.pc = "wait"
    /\ d > 0 /\ d <= timeout
    /\ clipboard' = [clipboard EXCEPT ![mode] = text]
    /\ wfc' = [wfc EXCEPT !.pc = "test", !.signal_triggered = TRUE,
                          !.elapsed = Later(@, d)]
    /\ UNCHANGED fill

\* with qtbot.waitSignal(...): no signal arrives within the timeout.
WaitSignalTimedOut ==
    /\ wfc.pc = "wait"
    /\ wfc' = [wfc EXCEPT !.pc = "test", !.signal_triggered = FALSE,
                          !.elapsed = Later(@, timeout)]
    /\ UNCHANGED <<clipboard, fill>>

\* if not blocker.signal_triggered or timer.hasExpired(timeout): raise
TestTimeout ==
    /\ wfc.pc = "test"
    /\ wfc' = IF ShouldRaise(wfc.signal_triggered, wfc.elapsed)
              THEN [wfc EXCEPT !.pc = "raised", !.exc = RaiseNamed("WaitForTimeout")]
              ELSE [wfc EXCEPT !.pc = "check"]
    /\ UNCHANGED <<clipboard, fill>>

\* The clipboard changes while the call is not inside waitSignal: no signal
\* is caught.
ClipboardChangedUnseen(mode, text) ==
    /\ wfc.pc \in {"check", "test"}
    /\ clipboard' = [clipboard EXCEPT ![mode] = text]
    /\ UNCHANGED <<wfc, fill>>

\* The steps _wait_for_clipboard takes by itself once called.
WaitForClipboardRuns ==
    \/ CheckText
    \/ \E k \in 1..(timeout \div Tick), mode \in Modes, text \in Texts :
          WaitSignalTriggered(k * Tick, mode, text)
    \/ WaitSignalTimedOut
    \/ TestTimeout

Init ==
    /\ win_id \in 0..(InitWindows - 1)
    /\ clipboard = [mode \in Modes |-> <<>>]
    /\ wfc = Frame_idle
    /\ fill = FillFrame("idle", "unbound", <<>>, "")
    /\ steps = <<>>
    /\ zoom = Zoom_init
    /\ zcall = [op |-> "__init__", offset |-> 0, factor |-> Frac(0, 1),
                fuzzyval |-> FALSE, ret |-> 0, raised |-> "", pre |-> Zoom_init]
    /\ tab_id_gen = FirstTab(win_id).gen
    /\ tabs = FirstTab(win_id).tabs
    /\ tab_registry = FirstTab(win_id).regs
    /\ rcall = [op |-> "__init__", backend |-> "webkit", win_id |-> win_id,
                parent |-> "None", ret |-> 1, pre_tabs |-> <<>>, pre_regs |-> EmptyDict]
    /\ windows = 0..(InitWindows - 1)
    /\ shown = windows
    /\ _progress = 0
    /\ _has_ssl_errors = FALSE
    /\ _load_status = Member("LoadStatus", "none")
    /\ data = TabData_init
    /\ call = Call("__init__")
    /\ pre = Snapshot
    /\ last_status_signal = NeverEmitted
    /\ load_events = FALSE
    /\ hinting = "never"

\* _on_load_started without the reset of _has_ssl_errors.
OnLoadStartedKeepsSslErrors ==
    LET r == _set_load_status(_load_status, Member("LoadStatus", "loading"))
    IN  /\ _progress' = 0
        /\ data' = [data EXCEPT !.viewing_source = FALSE]
        /\ _load_status' = r.load_status
        /\ call' = [Call("_on_load_started") EXCEPT
                      !.raised = r.raised,
                      !.emitted = r.emitted \o <<Emit("load_started", <<>>)>>]
        /\ pre' = Snapshot
        /\ last_status_signal' = StatusSignalAfter(call'.emitted)
        /\ load_events' = TRUE
        /\ UNCHANGED <<win_id, _has_ssl_errors, windows, shown, hinting>>

\* _on_load_started emitting load_started before it sets the load status.
OnLoadStartedEmitsFirst ==
    LET r == _set_load_status(_load_status, Member("LoadStatus", "loading"))
    IN  /\ _progress' = 0
        /\ _has_ssl_errors' = FALSE
        /\ data' = [data EXCEPT !.viewing_source = FALSE]
        /\ _load_status' = r.load_status
        /\ call' = [Call("_on_load_started") EXCEPT
                      !.raised = r.raised,
                      !.emitted = <<Emit("load_started", <<>>)>> \o r.emitted,
                      !.seen = <<Seen(_load_status, 0)>> \o
                               [i \in 1..Len(r.emitted) |-> Seen(r.load_status, 0)]]
        /\ pre' = Snapshot
        /\ last_status_signal' = StatusSignalAfter(call'.emitted)
        /\ load_events' = TRUE
        /\ UNCHANGED <<win_id, windows, shown, hinting>>

_on_load_started ==
    LET r == _set_load_status(_load_status, Member("LoadStatus", "loading"))
        done == r.raised = ""
    IN  /\ _progress' = 0
        /\ _has_ssl_errors' = FALSE
        /\ data' = [data EXCEPT !.viewing_source = FALSE]
        /\ _load_status' = r.load_status
        /\ call' = [Call("_on_load_started") EXCEPT
                      !.raised = r.raised,
                      !.emitted = r.emitted \o
                          (IF done THEN <<Emit("load_started", <<>>)>> ELSE <<>>),
                      !.seen = [i \in 1..Len(r.emitted) |-> Seen(r.load_status, 0)] \o
                          (IF done THEN <<Seen(r.load_status, 0)>> ELSE <<>>)]
        /\ pre' = Snapshot
        /\ last_status_signal' = StatusSignalAfter(call'.emitted)
        /\ load_events' = TRUE
        /\ UNCHANGED <<win_id, windows, shown, hinting>>

\* FinishedStatus with the two tests of the first branch swapped for one
\* test of ok alone: SSL errors no longer lead to warn.
FinishedStatusIgnoresSsl(ok, ssl_errors, url) ==
    IF ok
    THEN IF url.scheme = "https"
         THEN Member("LoadStatus", "success_https")
         ELSE Member("LoadStatus", "success")
    ELSE Member("LoadStatus", "error")

\* The status _on_load_finished(ok) sets, url being what url() returns.
FinishedStatus(ok, ssl_errors, url) ==
    IF ok /\ ~ssl_errors
    THEN IF url.scheme = "https"
         THEN Member("LoadStatus", "success_https")
         ELSE Member("LoadStatus", "success")
    ELSE IF ok
         THEN Member("LoadStatus", "warn")
         ELSE Member("LoadStatus", "error")

\* _on_load_finished emitting title_changed whatever the title is.
OnLoadFinishedTitleAlways(ok, url, title) ==
    LET r == _set_load_status(_load_status, FinishedStatus(ok, _has_ssl_errors, url))
        done == r.raised = ""
        emitted == r.emitted \o
                   (IF done THEN <<Emit("load_finished", <<ok>>)>> ELSE <<>>) \o
                   (IF done
                    THEN <<Emit("title_changed", <<url.display>>)>>
                    ELSE <<>>)
    IN  /\ _load_status' = r.load_status
        /\ call' = [Call("_on_load_finished") EXCEPT
                      !.ok = ok, !.cur_url = url, !.cur_title = title,
                      !.raised = r.raised,
                      !.emitted = emitted,
                      !.seen = [i \in 1..Len(emitted) |-> Seen(r.load_status, _progress)]]
        /\ pre' = Snapshot
        /\ last_status_signal' = StatusSignalAfter(call'.emitted)
        /\ load_events' = TRUE
        /\ UNCHANGED <<win_id, _progress, _has_ssl_errors, data, windows, shown, hinting>>

_on_load_finished(ok, url, title) ==
    LET r == _set_load_status(_load_status, FinishedStatus(ok, _has_ssl_errors, url))
        done == r.raised = ""
        emitted == r.emitted \o
                   (IF done THEN <<Emit("load_finished", <<ok>>)>> ELSE <<>>) \o
                   (IF done /\ title = ""
                    THEN <<Emit("title_changed", <<url.display>>)>>
                    ELSE <<>>)
    IN  /\ _load_status' = r.load_status
        /\ call' = [Call("_on_load_finished") EXCEPT
                      !.ok = ok, !.cur_url = url, !.cur_title = title,
                      !.raised = r.raised,
                      !.emitted = emitted,
                      !.seen = [i \in 1..Len(emitted) |-> Seen(r.load_status, _progress)]]
        /\ pre' = Snapshot
        /\ last_status_signal' = StatusSignalAfter(call'.emitted)
        /\ load_events' = TRUE
        /\ UNCHANGED <<win_id, _progress, _has_ssl_errors, data, windows, shown, hinting>>

_on_load_progress(perc) ==
    /\ _progress' = perc
    /\ call' = [Call("_on_load_progress") EXCEPT
                  !.perc = perc, !.emitted = <<Emit("load_progress", <<perc>>)>>]
    /\ pre' = Snapshot
    /\ UNCHANGED <<win_id, _load_status, _has_ssl_errors, data, windows, shown,
                   last_status_signal, load_events, hinting>>

_on_ssl_errors ==
    /\ _has_ssl_errors' = TRUE
    /\ call' = Call("_on_ssl_errors")
    /\ pre' = Snapshot
    /\ UNCHANGED <<win_id, _load_status, _progress, data, windows, shown,
                   last_status_signal, load_events, hinting>>

\* Handles the backend's urlChanged(url); title is what title() returns.
_on_url_changed(url, title) ==
    /\ call' = [Call("_on_url_changed") EXCEPT
                  !.url = url, !.cur_title = title,
                  !.emitted =
                      (IF url.valid /\ title = ""
                       THEN <<Emit("title_changed", <<url.display>>)>>
                       ELSE <<>>) \o
                      <<Emit("url_changed", <<url>>)>>]
    /\ pre' = Snapshot
    /\ UNCHANGED <<win_id, _load_status, _progress, _has_ssl_errors, data, windows,
                   shown, last_status_signal, load_events, hinting>>

\* A direct call of _set_load_status with a value that is no LoadStatus member.
\* (With a member it is called by _on_load_started and _on_load_finished only.)
SetLoadStatusCall(val) ==
    LET r == _set_load_status(_load_status, val)
    IN  /\ _load_status' = r.load_status
        /\ call' = [Call("_set_load_status") EXCEPT
                      !.val = val, !.raised = r.raised, !.emitted = r.emitted]
        /\ pre' = Snapshot
        /\ last_status_signal' = StatusSignalAfter(r.emitted)
        /\ UNCHANGED <<win_id, _progress, _has_ssl_errors, data, windows, shown,
                       load_events, hinting>>

\* A call of data.combined_target().
CombinedTargetCall ==
    /\ call' = [Call("combined_target") EXCEPT !.ret = combined_target(data)]
    /\ pre' = Snapshot
    /\ UNCHANGED <<win_id, _load_status, _progress, _has_ssl_errors, data, windows,
                   shown, last_status_signal, load_events, hinting>>

\* TabData._on_start_hinting(hint_target) applied to the TabData d.
TabData_on_start_hinting(d, hint_target) == [d EXCEPT !.hint_target = hint_target]

\* _on_stop_hinting without its assignment.
StopHintingKeepsTarget(d) == d

\* TabData._on_stop_hinting() applied to the TabData d.
TabData_on_stop_hinting(d) == [d EXCEPT !.hint_target = NoneVal]

_on_start_hinting(hint_target) ==
    /\ data' = TabData_on_start_hinting(data, hint_target)
    /\ hinting' = "started"
    /\ call' = [Call("_on_start_hinting") EXCEPT !.val = hint_target]
    /\ pre' = Snapshot
    /\ UNCHANGED <<win_id, _load_status, _progress, _has_ssl_errors, windows, shown,
                   last_status_signal, load_events>>

_on_stop_hinting ==
    /\ data' = TabData_on_stop_hinting(data)
    /\ hinting' = "stopped"
    /\ call' = Call("_on_stop_hinting")
    /\ pre' = Snapshot
    /\ UNCHANGED <<win_id, _load_status, _progress, _has_ssl_errors, windows, shown,
                   last_status_signal, load_events>>

\* _on_link_clicked opening a tab_bg link in the foreground.
LinkClickedTabBgInForeground(d, win, url, new_win) ==
    LET target == combined_target(d)
        normal == Member("ClickTarget", "normal")
        quiet == [data |-> d, ret |-> NoneVal, raised |-> "", errors |-> <<>>,
                  tabopens |-> <<>>, created |-> {}]
        opened(w, bg, made) ==
            [quiet EXCEPT
               !.data = [d EXCEPT !.open_target = normal],
               !.tabopens = <<[win_id |-> w, url |-> url, background |-> bg]>>,
               !.created = made]
    IN  IF ~url.valid
        THEN [quiet EXCEPT
                !.data = [d EXCEPT !.open_target = normal],
                !.errors = <<[win_id |-> win, text |-> "Invalid link clicked"]>>,
                !.ret = FalseVal]
        ELSE IF target = normal
        THEN quiet
        ELSE IF target = Member("ClickTarget", "tab")
        THEN opened(win, FALSE, {})
        ELSE IF target = Member("ClickTarget", "tab_bg")
        THEN opened(win, FALSE, {})
        ELSE IF target = Member("ClickTarget", "window")
        THEN opened(new_win, FALSE, {new_win})
        ELSE [quiet EXCEPT !.raised = "ValueError"]

\* _on_link_clicked without the return in its invalid-URL branch: the error is
\* shown and the click is then handled like a valid one.
LinkClickedInvalidFallsThrough(d, win, url, new_win) ==
    LET target == combined_target(d)
        normal == Member("ClickTarget", "normal")
        quiet == [data |-> d, ret |-> NoneVal, raised |-> "", errors |-> <<>>,
                  tabopens |-> <<>>, created |-> {}]
        invalid_or_quiet ==
            IF url.valid THEN quiet
            ELSE [quiet EXCEPT
                    !.errors = <<[win_id |-> win, text |-> "Invalid link clicked"]>>]
        opened(w, bg, made) ==
            [invalid_or_quiet EXCEPT
               !.data = [d EXCEPT !.open_target = normal],
               !.tabopens = <<[win_id |-> w, url |-> url, background |-> bg]>>,
               !.created = made]
    IN  IF target = normal
        THEN [invalid_or_quiet EXCEPT
                !.data = [d EXCEPT !.open_target =
                            IF url.valid THEN d.open_target ELSE normal]]
        ELSE IF target = Member("ClickTarget", "tab")
        THEN opened(win, FALSE, {})
        ELSE IF target = Member("ClickTarget", "tab_bg")
        THEN opened(win, TRUE, {})
        ELSE IF target = Member("ClickTarget", "window")
        THEN opened(new_win, FALSE, {new_win})
        ELSE [invalid_or_quiet EXCEPT !.raised = "ValueError"]

\* The outcome of _on_link_clicked(url) for a tab of window win with TabData d,
\* new_win being the win_id a newly created main window gets: the TabData
\* afterwards, the return value, the exception raised, the error messages shown,
\* the tabopen calls made and the windows created and shown.
LinkClicked(d, win, url, new_win) ==
    LET target == combined_target(d)
        normal == Member("ClickTarget", "normal")
        quiet == [data |-> d, ret |-> NoneVal, raised |-> "", errors |-> <<>>,
                  tabopens |-> <<>>, created |-> {}]
        opened(w, bg, made) ==
            [quiet EXCEPT
               !.data = [d EXCEPT !.open_target = normal],
               !.tabopens = <<[win_id |-> w, url |-> url, background |-> bg]>>,
               !.created = made]
    IN  IF ~url.valid
        THEN [quiet EXCEPT
                !.data = [d EXCEPT !.open_target = normal],
                !.errors = <<[win_id |-> win, text |-> "Invalid link clicked"]>>,
                !.ret = FalseVal]
        ELSE IF target = normal
        THEN quiet
        ELSE IF target = Member("ClickTarget", "tab")
        THEN opened(win, FALSE, {})
        ELSE IF target = Member("ClickTarget", "tab_bg")
        THEN opened(win, TRUE, {})
        ELSE IF target = Member("ClickTarget", "window")
        THEN opened(new_win, FALSE, {new_win})
        ELSE [quiet EXCEPT !.raised = "ValueError"]

_on_link_clicked(url) ==
    LET new_win == Cardinality(windows)
        r == LinkClicked(data, win_id, url, new_win)
    IN  /\ Cardinality(windows \cup r.created) <= MaxWindows
        /\ data' = r.data
        /\ windows' = windows \cup r.created
        /\ shown' = shown \cup r.created
        /\ call' = [Call("_on_link_clicked") EXCEPT
                      !.url = url, !.ret = r.ret, !.raised = r.raised,
                      !.errors = r.errors, !.tabopens = r.tabopens,
                      !.created = r.created]
        /\ pre' = Snapshot
        /\ UNCHANGED <<win_id, _load_status, _progress, _has_ssl_errors,
                       last_status_signal, load_events, hinting>>

\* The mouse handling of the backends sets data.open_target before a click.
SetOpenTarget(target) ==
    /\ data' = [data EXCEPT !.open_target = target]
    /\ call' = [Call("set open_target") EXCEPT !.val = target]
    /\ pre' = Snapshot
    /\ UNCHANGED <<win_id, _load_status, _progress, _has_ssl_errors, windows, shown,
                   last_status_signal, load_events, hinting>>

\* The view-source command sets data.viewing_source.
SetViewingSource ==
    /\ data' = [data EXCEPT !.viewing_source = TRUE]
    /\ call' = Call("set viewing_source")
    /\ pre' = Snapshot
    /\ UNCHANGED <<win_id, _load_status, _progress, _has_ssl_errors, windows, shown,
                   last_status_signal, load_events, hinting>>

\* The page-load facet: the slots the backend's load signals are connected to.
LoadNext ==
    /\ UNCHANGED <<regVars, zoomVars, stepVars, clipVars>>
    /\ \/ _on_load_started
       \/ \E ok \in BOOLEAN, url \in Urls, title \in Titles : _on_load_finished(ok, url, title)
       \/ \E perc \in 0..MaxProgress : _on_load_progress(perc)
       \/ _on_ssl_errors
       \/ \E url \in Urls, title \in Titles : _on_url_changed(url, title)
       \/ \E val \in NonLoadStatus : SetLoadStatusCall(val)
       \/ SetViewingSource

\* The click-target facet: hinting, mouse clicks and clicked links.
ClickNext ==
    /\ UNCHANGED <<regVars, zoomVars, stepVars, clipVars>>
    /\ \/ CombinedTargetCall
       \/ \E t \in ClickTarget : _on_start_hinting(t)
       \/ _on_stop_hinting
       \/ \E url \in Urls : _on_link_clicked(url)
       \/ \E t \in ClickTarget : SetOpenTarget(t)

\* The construction facet: create() and the deletion of tabs.
RegNext ==
    /\ UNCHANGED <<tabVars, zoomVars, stepVars, clipVars>>
    /\ \/ \E b \in Backends, w \in windows, p \in Parents : create(b, w, p)
       \/ \E i \in 1..MaxTabs : TabGone(i)

\* The zoom facet: the calls of the zoom commands and the config's signal.
ZoomNext ==
    /\ UNCHANGED <<tabVars, regVars, stepVars, clipVars>>
    /\ \/ \E n \in (-MaxOffset)..MaxOffset : ZoomOffset(n)
       \/ \E f \in Factors, fuzzyval \in BOOLEAN : ZoomSetFactor(f, fuzzyval)
       \/ ZoomSetDefault
       \/ \E section \in {"ui", "general"}, option \in {"zoom-levels", "default-zoom", "css"} :
             _on_config_changed(section, option)

\* The steps of the integration tests that open a path.
StepNext ==
    /\ UNCHANGED <<tabVars, regVars, zoomVars, clipVars>>
    /\ \/ \E path \in StepPaths : GivenIOpen(path)
       \/ \E path \in StepPaths : WhenIOpen(path)

\* The call of _wait_for_clipboard and the clipboard it watches.
ClipNext ==
    /\ UNCHANGED <<tabVars, regVars, zoomVars, stepVars>>
    /\ \/ \E mode \in Modes, expected \in Texts : WaitForClipboardCalled(mode, expected)
       \/ \E supportsSelection \in BOOLEAN, what \in Whats, content \in Contents :
             fill_clipboard(supportsSelection, what, content)
       \/ WaitForClipboardRuns
       \/ \E mode \in Modes, text \in Texts : ClipboardChangedUnseen(mode, text)
       \/ FillSignalCaught
       \/ \E mode \in Modes, text \in Texts : FillOtherWriter(mode, text)
       \/ FillWaitTimedOut

Next == LoadNext \/ ClickNext \/ RegNext \/ ZoomNext \/ StepNext \/ ClipNext

Spec == Init /\ [][Next]_vars

\* The two facets on their own: neither writes a variable the other reads.
LoadSpec == Init /\ [][LoadNext]_vars
ClickSpec == Init /\ [][ClickNext]_vars
RegSpec == Init /\ [][RegNext]_vars
ZoomSpec == Init /\ [][ZoomNext]_vars
StepSpec == Init /\ [][StepNext]_vars
\* Once called, _wait_for_clipboard keeps running: Python executes its next
\* statement, and qtbot.waitSignal comes back after the timeout at the latest.
ClipSpec ==
    Init /\ [][ClipNext]_vars /\ WF_clipVars(WaitForClipboardRuns) /\ WF_clipVars(FillWaitEnds)

\* ================================================================ claims
Status(n) == Member("LoadStatus", n)
Target(n) == Member("ClickTarget", n)

\* The arguments of the load_status_changed emissions of the last call.
StatusEmissions ==
    {call.emitted[i].args[1] :
        i \in {j \in 1..Len(call.emitted) : call.emitted[j].sig = "load_status_changed"}}

\* C1: after _on_load_finished(ok) the load status is success_https if ok, no
\* SSL error was recorded and the URL scheme is https; success if ok, no SSL
\* error and another scheme; warn if ok and an SSL error was recorded; error
\* if not ok; whatever the status was before.
C1_LoadFinishedStatus ==
    call.op = "_on_load_finished" =>
        /\ (call.ok /\ ~pre.has_ssl_errors /\ call.cur_url.scheme = "https")
               => load_status = Status("success_https")
        /\ (call.ok /\ ~pre.has_ssl_errors /\ call.cur_url.scheme # "https")
               => load_status = Status("success")
        /\ (call.ok /\ pre.has_ssl_errors) => load_status = Status("warn")
        /\ ~call.ok => load_status = Status("error")

\* A load over https that finished ok after an SSL error, from status loading.
C1_Witness ==
    /\ call.op = "_on_load_finished"
    /\ call.ok
    /\ pre.has_ssl_errors
    /\ call.cur_url.scheme = "https"
    /\ pre.load_status = Status("loading")
    /\ load_status = Status("warn")

\* C2: after _on_load_started the load status is loading, the progress is 0,
\* no SSL error is recorded and viewing_source is False.
C2_LoadStartedResets ==
    call.op = "_on_load_started" =>
        /\ load_status = Status("loading")
        /\ progress = 0
        /\ _has_ssl_errors = FALSE
        /\ data.viewing_source = FALSE

\* A load started while progress, SSL errors and viewing_source were all set.
C2_Witness ==
    /\ call.op = "_on_load_started"
    /\ pre.progress > 0
    /\ pre.has_ssl_errors
    /\ pre.data.viewing_source
    /\ pre.load_status = Status("warn")
    /\ load_status = Status("loading")

\* C3: every load_status_changed emission carries a status that differs from
\* the status the tab had before the emission.
C3_EmittedOnlyOnChange ==
    \A n \in StatusEmissions : n # pre.load_status.name

\* C4: the load status is the one named by the latest load_status_changed
\* emission; it is none exactly when no such signal was ever emitted, which is
\* exactly when no load-started or load-finished event was handled.
C4_StatusIsLastSignal ==
    /\ last_status_signal # NeverEmitted => load_status.name = last_status_signal
    /\ load_status = Status("none") <=> last_status_signal = NeverEmitted
    /\ last_status_signal = NeverEmitted <=> ~load_events

\* Two load events were handled and the status follows the second signal.
C4_Witness ==
    /\ call.op = "_on_load_finished"
    /\ pre.load_status = Status("loading")
    /\ last_status_signal = "success_https"
    /\ load_status = Status("success_https")

\* C5: _set_load_status with a value that is no LoadStatus member raises
\* TypeError, leaves _load_status as it was and emits no load_status_changed.
C5_NonMemberRejected ==
    (call.op = "_set_load_status" /\ ~IsLoadStatus(call.val)) =>
        /\ call.raised = "TypeError"
        /\ _load_status = pre.load_status
        /\ StatusEmissions = {}

\* The str 'loading' was handed to _set_load_status of a tab that had finished
\* loading.
C5_Witness ==
    /\ call.op = "_set_load_status"
    /\ call.val = Member("str", "loading")
    /\ pre.load_status = Status("success")
    /\ _load_status = Status("success")

\* C6: combined_target() returns hint_target whenever hint_target is not None,
\* also when hint_target is normal and open_target is not, and open_target
\* otherwise; it changes neither field.
C6_CombinedTarget ==
    call.op = "combined_target" =>
        /\ pre.data.hint_target # NoneVal => call.ret = pre.data.hint_target
        /\ pre.data.hint_target = NoneVal => call.ret = pre.data.open_target
        /\ data.hint_target = pre.data.hint_target
        /\ data.open_target = pre.data.open_target

\* combined_target() was called with hint_target normal and open_target tab.
C6_Witness ==
    /\ call.op = "combined_target"
    /\ pre.data.hint_target = Target("normal")
    /\ pre.data.open_target = Target("tab")
    /\ call.ret = Target("normal")

\* C7: hint_target is None initially, start_hinting(t) sets it to t and
\* stop_hinting sets it to None; so hint_target is not None only if the latest
\* hinting slot handled was start_hinting, and once stop_hinting was the latest
\* one combined_target() is open_target.
C7_HintingLifecycle ==
    /\ call.op = "__init__" => data.hint_target = NoneVal
    /\ call.op = "_on_start_hinting" => data.hint_target = call.val
    /\ call.op = "_on_stop_hinting" => data.hint_target = NoneVal
    /\ data.hint_target # NoneVal => hinting = "started"
    /\ hinting = "stopped" => combined_target(data) = data.open_target

\* Hinting with target window was stopped while open_target was tab.
C7_Witness ==
    /\ call.op = "_on_stop_hinting"
    /\ pre.data.hint_target = Target("window")
    /\ data.open_target = Target("tab")
    /\ combined_target(data) = Target("tab")

\* C8: for a valid URL and a combined target of tab, tab_bg or window,
\* _on_link_clicked calls tabopen(url, background=...) exactly once: for tab on
\* the tab's own window in the foreground, for tab_bg on the tab's own window in
\* the background, for window on a newly created and shown main window in the
\* foreground; afterwards open_target is normal.
C8_LinkOpensOnce ==
    LET target == IF pre.data.hint_target # NoneVal
                  THEN pre.data.hint_target ELSE pre.data.open_target
        opens == call.tabopens
    IN  (call.op = "_on_link_clicked" /\ call.url.valid
            /\ target \in {Target("tab"), Target("tab_bg"), Target("window")}) =>
            /\ Len(opens) = 1
            /\ opens[1].url = call.url
            /\ opens[1].background = (target = Target("tab_bg"))
            /\ target # Target("window") =>
                    /\ opens[1].win_id = win_id
                    /\ windows = pre.windows
            /\ target = Target("window") =>
                    /\ opens[1].win_id \notin pre.windows
                    /\ windows = pre.windows \cup {opens[1].win_id}
                    /\ opens[1].win_id \in shown
            /\ data.open_target = Target("normal")

\* A valid link was clicked with open_target window and no hint override.
C8_Witness ==
    /\ call.op = "_on_link_clicked"
    /\ call.url = HttpsUrl
    /\ pre.data.hint_target = NoneVal
    /\ pre.data.open_target = Target("window")
    /\ Len(call.tabopens) = 1
    /\ call.tabopens[1].win_id # win_id

\* C9: after _on_link_clicked has handled any link click, open_target is
\* normal.
C9_OpenTargetReset ==
    call.op = "_on_link_clicked" => data.open_target = Target("normal")

\* C10: _on_link_clicked with an invalid URL shows an error for the tab's
\* window, resets open_target to normal and returns False; it opens no tab,
\* creates no window and leaves hint_target as it was.
C10_InvalidLink ==
    (call.op = "_on_link_clicked" /\ ~call.url.valid) =>
        /\ Len(call.errors) = 1
        /\ call.errors[1].win_id = win_id
        /\ data.open_target = Target("normal")
        /\ call.ret = FalseVal
        /\ call.raised = ""
        /\ call.tabopens = <<>>
        /\ call.created = {}
        /\ windows = pre.windows
        /\ data.hint_target = pre.data.hint_target

\* An invalid link was clicked while hint_target was tab_bg and open_target
\* was window.
C10_Witness ==
    /\ call.op = "_on_link_clicked"
    /\ ~call.url.valid
    /\ pre.data.hint_target = Target("tab_bg")
    /\ pre.data.open_target = Target("window")
    /\ call.ret = FalseVal

\* C11: the n-th AbstractTab constructed in the process, n counted from 0, has
\* tab_id n: ids are unique over all windows, increase in the order of
\* construction and are never reused, also after earlier tabs are gone.
C11_TabIdsCount ==
    /\ \A i \in 1..Len(tabs) : tabs[i].tab_id = i - 1
    /\ \A i, j \in 1..Len(tabs) : i < j => tabs[i].tab_id < tabs[j].tab_id
    /\ tab_id_gen = Len(tabs)

\* A third tab was constructed after the second one was gone.
C11_Witness ==
    /\ rcall.op = "create"
    /\ Len(tabs) = 3
    /\ ~rcall.pre_tabs[2].alive
    /\ tabs[3].tab_id = 2
    /\ tabs[3].win_id # tabs[1].win_id

\* C12: each window's tab-registry maps the tab_id of every tab constructed for
\* that window to that tab; constructing a tab adds one entry under its own
\* tab_id and neither overwrites nor removes an entry of another tab; the
\* tab's own registry holds the tab under 'tab', and a hint manager is
\* registered in the tab's scope.
C12_Registries ==
    /\ \A i \in 1..Len(tabs) :
          /\ tabs[i].alive =>
                /\ tabs[i].win_id \in DOMAIN tab_registry
                /\ tabs[i].tab_id \in DOMAIN tab_registry[tabs[i].win_id]
                /\ tab_registry[tabs[i].win_id][tabs[i].tab_id] = i
          /\ tabs[i].registry.tab = i
          /\ tabs[i].registry.hintmanager =
                [win_id |-> tabs[i].win_id, tab_id |-> tabs[i].tab_id]
    /\ rcall.op = "create" =>
          LET new == tabs[rcall.ret]
              old == rcall.pre_regs
              before(w) == IF w \in DOMAIN old THEN DOMAIN old[w] ELSE {}
          IN  /\ \A w \in DOMAIN old : \A k \in DOMAIN old[w] :
                    /\ w \in DOMAIN tab_registry
                    /\ k \in DOMAIN tab_registry[w]
                    /\ tab_registry[w][k] = old[w][k]
              /\ new.tab_id \notin before(new.win_id)
              /\ \A w \in DOMAIN tab_registry :
                    DOMAIN tab_registry[w] =
                        before(w) \cup (IF w = new.win_id THEN {new.tab_id} ELSE {})

\* A tab was constructed for a window whose tab-registry held another tab,
\* while a second window's tab-registry held one too.
C12_Witness ==
    /\ rcall.op = "create"
    /\ Len(tabs) = 3
    /\ tabs[1].win_id = tabs[3].win_id
    /\ tabs[2].win_id # tabs[3].win_id
    /\ tabs[2].alive
    /\ DOMAIN tab_registry[tabs[3].win_id] = {0, 2}

\* C13: create(win_id, parent) returns a WebEngineTab exactly if the backend
\* argument is 'webengine' and a WebKitTab for every other value; the tab is
\* constructed with the given win_id, that window's mode manager and the given
\* parent.
C13_CreateBackend ==
    rcall.op = "create" =>
        LET t == tabs[rcall.ret]
        IN  /\ t.cls = "WebEngineTab" <=> rcall.backend = "webengine"
            /\ t.cls = "WebKitTab" <=> rcall.backend # "webengine"
            /\ t.win_id = rcall.win_id
            /\ t.mode_manager = [mode_manager_of |-> rcall.win_id]
            /\ t.parent = rcall.parent

\* create() was called with a backend of 'WebEngine' and a parent.
C13_Witness ==
    /\ rcall.op = "create"
    /\ rcall.backend = "WebEngine"
    /\ rcall.parent = "tabbed-browser"
    /\ tabs[rcall.ret].cls = "WebKitTab"
    /\ tabs[rcall.ret].win_id # win_id

\* C14: offset(n) returns the level L that the neighbour list yields for
\* offset n; after the call the zoom factor is L/100, _default_zoom_changed is
\* True, and the neighbour list is as getitem left it: set_factor was called
\* with fuzzyval=False and did not write its fuzzy value.
C14_ZoomOffset ==
    zcall.op = "offset" =>
        LET got == NeighborList_getitem(zcall.pre.neighborlist, zcall.offset)
        IN  /\ zcall.raised = ""
            /\ zcall.ret = got.item
            /\ zoom.factor.num * 100 = zcall.ret * zoom.factor.den
            /\ zoom.default_zoom_changed
            /\ zoom.neighborlist = got.list
            /\ zoom.neighborlist.fuzzyval = NoFuzzy

\* offset(1) was called on a fresh zoom, whose fuzzy value is the default
\* zoom of 100: the zoom went to the next level, 150%.
C14_Witness ==
    /\ zcall.op = "offset"
    /\ zcall.offset = 1
    /\ zcall.pre.neighborlist.fuzzyval = Fuzzy(100)
    /\ ~zcall.pre.default_zoom_changed
    /\ zcall.ret = 150
    /\ zoom.factor = Frac(150, 100)

\* C15: set_factor with a negative factor raises ValueError and leaves the zoom
\* as it was: the widget's factor, _default_zoom_changed and the neighbour list
\* with its fuzzy value, for fuzzyval True and False.
C15_NegativeFactorNoChange ==
    (zcall.op = "set_factor" /\ zcall.factor.num < 0) =>
        /\ zcall.raised = "ValueError"
        /\ zoom.factor = zcall.pre.factor
        /\ zoom.default_zoom_changed = zcall.pre.default_zoom_changed
        /\ zoom.neighborlist = zcall.pre.neighborlist

\* C16: 'Given I open {path}' always opens the path, unchanged, in a new tab;
\* 'When I open {path}' opens it in a new tab exactly if the text ends with
\* ' in a new tab', and then the path passed on is the text without exactly
\* that suffix; otherwise the path is passed unchanged with new_tab False.
C16_OpenSteps ==
    \A i \in 1..Len(steps) :
        LET st == steps[i]
            ends == /\ Len(st.path) >= 13
                    /\ \A k \in 1..13 :
                          st.path[Len(st.path) - 13 + k] = new_tab_suffix[k]
        IN  /\ st.step = "given" => st.opened = [path |-> st.path, new_tab |-> TRUE]
            /\ st.step = "when" =>
                  /\ st.opened.new_tab <=> ends
                  /\ ends => st.opened.path \o new_tab_suffix = st.path
                  /\ ~ends => st.opened.path = st.path

\* 'Given I open d/x in a new tab' was run, then 'When I open d/x in a new
\* tab': the first passed the text on whole, the second passed 'd/x'.
C16_Witness ==
    /\ Len(steps) = 2
    /\ steps[1].step = "given"
    /\ steps[2].step = "when"
    /\ steps[1].path = <<"d", "/", "x">> \o new_tab_suffix
    /\ steps[2].path = steps[1].path
    /\ steps[1].opened.path = steps[1].path
    /\ steps[2].opened = [path |-> <<"d", "/", "x">>, new_tab |-> TRUE]

\* C17: each _on_load_started emits exactly one load_status_changed('loading')
\* and exactly one load_started, in this order, so that a listener of
\* load_started finds load_status() = loading and progress() = 0.
C17_LoadStartedSignals ==
    call.op = "_on_load_started" =>
        /\ Len(call.emitted) = 2
        /\ call.emitted[1] = [sig |-> "load_status_changed", args |-> <<"loading">>]
        /\ call.emitted[2] = [sig |-> "load_started", args |-> <<>>]
        /\ call.seen[2] = [load_status |-> Status("loading"), progress |-> 0]

\* A load started on a tab that had finished one at progress 1.
C17_Witness ==
    /\ call.op = "_on_load_started"
    /\ pre.load_status = Status("success")
    /\ pre.progress = 1
    /\ Len(call.emitted) = 2
    /\ call.seen[2].progress = 0

\* C18: each _on_load_finished(ok) emits, in this order, one
\* load_status_changed with the final status, one load_finished with the same
\* ok, and then title_changed with the URL's display string exactly if the
\* tab's title is empty.
C18_LoadFinishedSignals ==
    call.op = "_on_load_finished" =>
        /\ Len(call.emitted) = IF call.cur_title = "" THEN 3 ELSE 2
        /\ call.emitted[1].sig = "load_status_changed"
        /\ call.emitted[1].args = <<load_status.name>>
        /\ call.emitted[2].sig = "load_finished"
        /\ call.emitted[2].args = <<call.ok>>
        /\ call.cur_title = "" =>
              /\ call.emitted[3].sig = "title_changed"
              /\ call.emitted[3].args = <<call.cur_url.display>>

\* A load of an https page with a title finished with SSL errors: two signals.
C18_Witness ==
    /\ call.op = "_on_load_finished"
    /\ call.ok
    /\ call.cur_title # ""
    /\ call.cur_url = HttpsUrl
    /\ load_status = Status("warn")
    /\ Len(call.emitted) = 2

\* _wait_for_clipboard ends, returns only from a check at which the text of
\* the given mode equalled the expected one, raises only after a wait without
\* a signal or with the timer expired, and goes on only otherwise.
WaitForClipboardEnds ==
    /\ [](wfc.pc = "returned" => wfc.checked = wfc.expected)
    /\ [][(wfc.pc # "returned" /\ wfc'.pc = "returned") =>
            (wfc.pc = "check" /\ clipboard[wfc.mode] = wfc.expected)]_clipVars
    /\ [](wfc.pc = "raised" => (~wfc.signal_triggered \/ wfc.elapsed > 1000))
    /\ []((wfc.pc \in {"check", "wait"} /\ wfc.checks > 0 /\ wfc.elapsed > 0) =>
            (wfc.signal_triggered /\ wfc.elapsed <= 1000))
    /\ (wfc.pc \in {"check", "wait", "test"}) ~> (wfc.pc \in {"returned", "raised"})

\* C19: _wait_for_clipboard always terminates, and returns normally only if
\* the clipboard text in the given mode equalled the expected text at a check;
\* after a wait it raises a timeout error (WaitForTimeout) if no signal
\* arrived within the timeout or the timer of 1000 ms has expired, and goes on
\* to the next check only otherwise.
C19_WaitForClipboard ==
    /\ WaitForClipboardEnds
    /\ [](wfc.pc = "raised" => wfc.exc = "WaitForTimeout")
====
